---- MODULE Spec2Model ----
(***************************************************************************)
(* A model of job_scrap_data_1.py: the LinkedInRecentITJobsScraper class   *)
(* (text classifiers, geocoding cache, pagination, the two sink writers)   *)
(* and lambda_handler.                                                     *)
(*                                                                         *)
(* Strings are TLA+ strings; Len, SubSeq and \o act on them as on Python   *)
(* str.  Four specifications share the variables:                          *)
(*   Spec        one invocation of lambda_handler                          *)
(*   SpecDB      a sequence of save_to_postgres calls on one database      *)
(*   SpecClean   clean_location applied once and twice to a location       *)
(*   SpecRecent  is_recent_job applied to a posted-date text               *)
(***************************************************************************)
EXTENDS Integers, Sequences, FiniteSets, TLC

VARIABLES
    arg,        \* input of the pure function under check (SpecClean, SpecRecent)
    ret,        \* results of its successive applications
    env,        \* os.environ: the names of the variables that are set
    pc,         \* lambda_handler's position
    response,   \* what lambda_handler returned
    ti,         \* scrape_linkedin_jobs: index of job_title in it_jobs
    page,       \* scrape_linkedin_jobs: page
    consecutive_old_jobs,
    all_jobs,   \* the record list (all_jobs, then lambda_handler's jobs)
    job_cards,  \* scrape_linkedin_jobs: the cards of the page parsed last
    lastFetch,  \* scrape_linkedin_jobs: what the last requests.get did
    starts,     \* history: the start= offsets requested, per term
    returned,   \* history: the list scrape_linkedin_jobs returned
    fetched,    \* history: result-page requests issued, per term
    stalePages, \* history: fetched pages with cards but no recent card, per term
    geocoding_cache,
    geoLog,     \* history of get_coordinates, per location called
    lookups,    \* history: requests sent to the lookup service, per writer
    idx,        \* the writers' "for job in jobs" position
    jobs_with_coordinates,
    s3_path,
    blobs,      \* the objects of the bucket
    s3Outcome,  \* history: how save_to_s3 ended
    pgc,        \* save_to_postgres's position
    job_data,
    db,         \* the committed state of the database
    dbBefore,   \* history: db when save_to_postgres was called
    pgOutcome,  \* history: how save_to_postgres ended
    calls       \* SpecDB: save_to_postgres calls so far

fnvars == <<arg, ret>>
scrapevars == <<ti, page, consecutive_old_jobs, all_jobs, job_cards, lastFetch,
                fetched, stalePages, starts, returned>>
geovars == <<geocoding_cache, geoLog, lookups>>
s3vars == <<jobs_with_coordinates, s3_path, blobs, s3Outcome>>
pgvars == <<pgc, job_data, db, dbBefore, pgOutcome>>
vars == <<arg, ret, env, pc, response, ti, page, consecutive_old_jobs, all_jobs,
          job_cards, lastFetch, fetched, stalePages, starts, returned,
          geocoding_cache, geoLog, lookups, idx,
          jobs_with_coordinates, s3_path, blobs, s3Outcome, pgc, job_data, db,
          dbBefore, pgOutcome, calls>>

(***************************************************************************)
(* Python str operations used by the source                                *)
(***************************************************************************)

\* s.endswith(suf)
EndsWith(s, suf) ==
    /\ Len(s) >= Len(suf)
    /\ SubSeq(s, Len(s) - Len(suf) + 1, Len(s)) = suf

\* pat in s   (pat non-empty)
Contains(s, pat) ==
    \E i \in 1..(Len(s) - Len(pat) + 1) : SubSeq(s, i, i + Len(pat) - 1) = pat

\* re.sub(suf + '$', '', s) for a literal suf; the inputs hold no newline, so
\* '$' matches at the very end only
RemoveSuffix(s, suf) ==
    IF EndsWith(s, suf) THEN SubSeq(s, 1, Len(s) - Len(suf)) ELSE s

\* re.sub(pat, '', s) for a literal pat: every leftmost non-overlapping
\* occurrence is removed in one left-to-right scan
RECURSIVE RemoveAllFrom(_, _, _)
RemoveAllFrom(s, pat, i) ==
    IF i > Len(s) THEN ""
    ELSE IF i + Len(pat) - 1 <= Len(s) /\ SubSeq(s, i, i + Len(pat) - 1) = pat
         THEN RemoveAllFrom(s, pat, i + Len(pat))
         ELSE SubSeq(s, i, i) \o RemoveAllFrom(s, pat, i + 1)

RemoveAll(s, pat) == RemoveAllFrom(s, pat, 1)

\* s.split(',')[0]
BeforeFirstComma(s) ==
    IF Contains(s, ",")
    THEN LET i == CHOOSE k \in 1..Len(s) :
                     /\ SubSeq(s, k, k) = ","
                     /\ \A j \in 1..(k - 1) : SubSeq(s, j, j) # ","
         IN  SubSeq(s, 1, i - 1)
    ELSE s

\* s.strip()   (the inputs' only whitespace is the space)
RECURSIVE LStrip(_)
LStrip(s) ==
    IF Len(s) > 0 /\ SubSeq(s, 1, 1) = " " THEN LStrip(SubSeq(s, 2, Len(s))) ELSE s

RECURSIVE RStrip(_)
RStrip(s) ==
    IF Len(s) > 0 /\ SubSeq(s, Len(s), Len(s)) = " "
    THEN RStrip(SubSeq(s, 1, Len(s) - 1)) ELSE s

Strip(s) == LStrip(RStrip(s))

UpperChars == "ABCDEFGHIJKLMNOPQRSTUVWXYZ"
LowerChars == "abcdefghijklmnopqrstuvwxyz"

LowerChar(c) ==
    IF \E i \in 1..Len(UpperChars) : SubSeq(UpperChars, i, i) = c
    THEN LET i == CHOOSE k \in 1..Len(UpperChars) : SubSeq(UpperChars, k, k) = c
         IN  SubSeq(LowerChars, i, i)
    ELSE c

UpperChar(c) ==
    IF \E i \in 1..Len(LowerChars) : SubSeq(LowerChars, i, i) = c
    THEN LET i == CHOOSE k \in 1..Len(LowerChars) : SubSeq(LowerChars, k, k) = c
         IN  SubSeq(UpperChars, i, i)
    ELSE c

\* s.lower()
RECURSIVE Lower(_)
Lower(s) ==
    IF Len(s) = 0 THEN "" ELSE LowerChar(SubSeq(s, 1, 1)) \o Lower(SubSeq(s, 2, Len(s)))

\* s.upper(), used only to write the inputs in another case
RECURSIVE Upper(_)
Upper(s) ==
    IF Len(s) = 0 THEN "" ELSE UpperChar(SubSeq(s, 1, 1)) \o Upper(SubSeq(s, 2, Len(s)))

(***************************************************************************)
(* Text classifiers                                                        *)
(***************************************************************************)

\* clean_location without its final comma split: a plausible slip
clean_location_nosplit(location) ==
    LET l1 == RemoveSuffix(location, ", England, United Kingdom")
        l2 == RemoveSuffix(l1, ", United Kingdom")
        l3 == RemoveSuffix(l2, ", UK")
        l4 == RemoveSuffix(l3, " Area, United Kingdom")
        l5 == RemoveSuffix(l4, " Area")
    IN  RemoveAll(l5, "Greater ")

clean_location(location) ==
    LET l1 == RemoveSuffix(location, ", England, United Kingdom")
        l2 == RemoveSuffix(l1, ", United Kingdom")
        l3 == RemoveSuffix(l2, ", UK")
        l4 == RemoveSuffix(l3, " Area, United Kingdom")
        l5 == RemoveSuffix(l4, " Area")
        l6 == RemoveAll(l5, "Greater ")
    IN  IF Contains(l6, ",") THEN Strip(BeforeFirstComma(l6)) ELSE l6

is_recent_job(posted_date_text) ==
    LET text == Lower(posted_date_text)
    IN  IF Contains(text, "hours ago") \/ Contains(text, "hour ago") THEN TRUE
        ELSE IF Contains(text, "day ago") \/ Contains(text, "1 day ago") THEN TRUE
        ELSE IF Contains(text, "2 days ago") THEN TRUE
        ELSE IF Contains(text, "3 days ago") THEN TRUE
        ELSE FALSE

(***************************************************************************)
(* Inputs of the pure functions                                            *)
(***************************************************************************)

MaxPieces == 3      \* a location is at most this many pieces long
MaxAge == 24        \* ages 1..MaxAge of every unit are written as text

\* the pieces locations are built from: the suffixes and the prefix the
\* cleaner knows, a city, a comma-separated part, and the two halves of a
\* "Greater " nested inside another one ("Gre" \o "Greater " \o "ater ")
Pieces ==
    { "London", "Greater ", " Area", ", UK", ", United Kingdom",
      ", England", " , Kent", "Gre", "ater " }

RECURSIVE Concat(_)
Concat(ps) == IF ps = <<>> THEN "" ELSE Head(ps) \o Concat(Tail(ps))

LocationInputs ==
    { Concat(ps) : ps \in UNION { [1..n -> Pieces] : n \in 0..MaxPieces } }

\* a posted date as LinkedIn writes it: "<n> <unit>s ago", in one of three
\* letter cases, or a text that is no age at all
Units == {"hour", "day", "week", "month"}
Cases == {"lower", "Title", "UPPER"}
OtherTexts == {"", "Just now", "Reposted", "Be an early applicant", "ago"}

Dates ==
    [kind : {"age"}, n : 1..MaxAge, unit : Units, case : Cases, text : {""}]
    \cup [kind : {"other"}, n : {0}, unit : {"none"}, case : {"lower"}, text : OtherTexts]

TitleCase(s) == IF Len(s) = 0 THEN s ELSE UpperChar(SubSeq(s, 1, 1)) \o SubSeq(s, 2, Len(s))

PostedText(d) ==
    IF d.kind = "other" THEN d.text
    ELSE LET w == d.unit \o (IF d.n = 1 THEN "" ELSE "s")
             t == ToString(d.n) \o " " \o w \o " ago"
         IN  CASE d.case = "lower" -> t
               [] d.case = "Title" -> ToString(d.n) \o " " \o TitleCase(w) \o " Ago"
               [] d.case = "UPPER" -> Upper(t)

\* the age the text denotes is at most 3 days
DenotesAtMost3Days(d) ==
    /\ d.kind = "age"
    /\ \/ d.unit = "hour" /\ d.n <= 72
       \/ d.unit = "day" /\ d.n <= 3



(***************************************************************************)
(* The scraper's data                                                      *)
(***************************************************************************)

None == "None"

it_jobs == <<"Backend Developer", "Frontend Developer", "Machine Learning Engineer">>

max_pages_per_category == 1

DBVars == {"DB_NAME", "DB_USER", "DB_PASSWORD", "DB_HOST", "DB_PORT"}
EnvVars == DBVars \cup {"S3_BUCKET_NAME"}

\* the keys of os.environ that __init__ reads with one fewer: a plausible slip
InitReadsNoPort == DBVars \ {"DB_PORT"}

\* the keys of os.environ that __init__ reads
InitReads == DBVars

\* lines 58-65: determine_experience_level
determine_experience_level(job_description) ==
    LET text == Lower(job_description)
    IN  IF \E word \in {"senior", "lead", "principal", "manager", "head of"} :
               Contains(text, word)
        THEN "Senior Level"
        ELSE IF \E word \in {"junior", "entry", "graduate", "trainee"} :
                    Contains(text, word)
        THEN "Entry Level"
        ELSE "Mid Level"

\* lines 69-74: is_remote
is_remote(job_description) ==
    LET text == Lower(job_description)
    IN  IF \E word \in {"remote", "work from home", "wfh", "hybrid"} :
               Contains(text, word)
        THEN IF Contains(text, "hybrid") THEN "Hybrid" ELSE "Remote"
        ELSE "On-site"

MaxCards == 2       \* cards on one result page

\* The listing cards the search site can show.  hasDate: the card holds a
\* <time class="job-search-card__listdate"> element, date is its text.
\* ok: the title, company, location and link elements are there and the
\* detail page can be fetched.  description: the text of the detail page's
\* markup div, "" when the page has none (line 184).
Card ==
    <<  [url |-> "u1", raw |-> "London, England, United Kingdom",
         hasDate |-> TRUE, date |-> "2 days ago", ok |-> TRUE,
         description |-> "Senior Engineer, Hybrid or remote"],
        [url |-> "u2", raw |-> "Greater Manchester Area",
         hasDate |-> FALSE, date |-> "", ok |-> TRUE,
         description |-> ""],
        [url |-> "u3", raw |-> "Leeds, UK",
         hasDate |-> TRUE, date |-> "2 weeks ago", ok |-> TRUE,
         description |-> "Graduate trainee role, WFH"],
        [url |-> "u4", raw |-> "Bristol, UK",
         hasDate |-> TRUE, date |-> "3 days ago", ok |-> FALSE,
         description |-> "Team Lead for entry level staff"] >>

CardIds == DOMAIN Card

\* a result page: the site lists each card once, in any order
Pages ==
    { s \in UNION { [1..n -> CardIds] : n \in 0..MaxCards } :
        \A i, j \in 1..Len(s) : s[i] = s[j] => i = j }

\* is_recent_job of every card's date text
RecentDate == [k \in CardIds |-> is_recent_job(Card[k].date)]

\* the card is read although its date is old: the "continue" is lost
CardPassesAlways(k) == TRUE

\* lines 168-172: card number k is not skipped by the recency filter
CardPasses(k) == ~Card[k].hasDate \/ RecentDate[k]

\* the two classifiers on every card's description
ExperienceOf == [k \in CardIds |-> determine_experience_level(Card[k].description)]
WorkTypeOf == [k \in CardIds |-> is_remote(Card[k].description)]

\* the record with posted_date_text written whatever posted_date is: the
\* conditional of line 196 is lost
JobRecordNoSentinel(k, job_title) ==
    [ Location   |-> clean_location(Card[k].raw),
      ExperienceLevel |-> ExperienceOf[k],
      WorkType   |-> WorkTypeOf[k],
      Category   |-> job_title,
      PostedDate |-> Card[k].date,
      JobURL     |-> Card[k].url,
      card       |-> k ]

\* lines 176-199: the record of card number k under job_title; card is
\* history (the card the record was read from)
JobRecord(k, job_title) ==
    [ Location   |-> clean_location(Card[k].raw),
      ExperienceLevel |-> ExperienceOf[k],
      WorkType   |-> WorkTypeOf[k],
      Category   |-> job_title,
      PostedDate |-> IF Card[k].hasDate THEN Card[k].date ELSE "Recently",
      JobURL     |-> Card[k].url,
      card       |-> k ]

\* a card that cannot be parsed ends the page: the inner try/except is lost
RECURSIVE ProcessCardsAborts(_, _)
ProcessCardsAborts(cards, job_title) ==
    IF cards = <<>> THEN <<>>
    ELSE LET c == Card[Head(cards)]
         IN  IF ~CardPasses(Head(cards))
             THEN ProcessCardsAborts(Tail(cards), job_title)
             ELSE IF c.ok
             THEN <<JobRecord(Head(cards), job_title)>>
                      \o ProcessCardsAborts(Tail(cards), job_title)
             ELSE <<>>

\* lines 166-203: the records the cards of one page add to all_jobs
RECURSIVE ProcessCards(_, _)
ProcessCards(cards, job_title) ==
    IF cards = <<>> THEN <<>>
    ELSE LET c == Card[Head(cards)]
             rest == ProcessCards(Tail(cards), job_title)
         IN  IF CardPasses(Head(cards)) /\ c.ok
             THEN <<JobRecord(Head(cards), job_title)>> \o rest
             ELSE rest

\* recent_jobs_found after the page's cards (set before the card is parsed)
RecentFound(cards) == \E i \in 1..Len(cards) : CardPasses(cards[i])

\* the page holds cards, each with a date the recency predicate rejects
IsStalePage(cards) ==
    /\ cards # <<>>
    /\ \A i \in 1..Len(cards) :
           Card[cards[i]].hasDate /\ ~RecentDate[cards[i]]

RecordsOf(jobs, job_title) ==
    Cardinality({ i \in 1..Len(jobs) : jobs[i].Category = job_title })

(***************************************************************************)
(* get_coordinates                                                         *)
(***************************************************************************)

\* what the lookup service does on one call: a 200 with a result, a 200 with
\* an empty list, another status, or requests.get / json / float raising
GeoOutcomes == {"found", "empty", "non200", "raise"}

NoCoordinates == <<None, None>>
Coordinates(location) == <<"lat " \o location, "lon " \o location>>

\* the call reaches requests.get (line 116)
GeoCallsNetwork(location, cache) == location # "" /\ location \notin DOMAIN cache

\* the pair get_coordinates returns
GeoValue(location, outcome, cache) ==
    IF location = "" THEN NoCoordinates
    ELSE IF location \in DOMAIN cache THEN cache[location]
    ELSE IF outcome = "found" THEN Coordinates(location)
    ELSE NoCoordinates

\* get_coordinates without its cache writes: every call asks the service
GeoCacheNever(location, outcome, cache) == cache

\* geocoding_cache after the call: lines 125 and 129 write it, the except
\* branch of line 132 does not
GeoCache(location, outcome, cache) ==
    IF location = "" \/ location \in DOMAIN cache THEN cache
    ELSE IF outcome = "found" THEN cache @@ (location :> Coordinates(location))
    ELSE IF outcome \in {"empty", "non200"} THEN cache @@ (location :> NoCoordinates)
    ELSE cache

\* history: per location, the value of the first call, the network calls so
\* far, and whether every later call returned that value without a network call
GeoLogged(log, location, value, net) ==
    IF location = "" THEN log
    ELSE IF location \notin DOMAIN log
         THEN log @@ (location :> [first |-> value, net |-> IF net THEN 1 ELSE 0,
                                   same |-> TRUE])
         ELSE [log EXCEPT ![location] =
                  [first |-> @.first, net |-> @.net + (IF net THEN 1 ELSE 0),
                   same |-> @.same /\ ~net /\ value = @.first]]

\* one call of get_coordinates(location) by the writer `caller', with the
\* service doing `outcome'
GetCoordinates(location, outcome, caller) ==
    /\ geocoding_cache' = GeoCache(location, outcome, geocoding_cache)
    /\ lookups' = IF GeoCallsNetwork(location, geocoding_cache)
                  THEN [lookups EXCEPT ![caller] = @ + 1]
                  ELSE lookups
    /\ geoLog' = GeoLogged(geoLog, location,
                           GeoValue(location, outcome, geocoding_cache),
                           GeoCallsNetwork(location, geocoding_cache))

(***************************************************************************)
(* lambda_handler: construction and scraping                               *)
(***************************************************************************)

NoResponse == [statusCode |-> 0, body |-> <<>>]

EmptyDB == [table |-> FALSE, constraint |-> FALSE, rows |-> <<>>]

\* a database an earlier run of the handler has left: the table, its
\* constraint and the row of card 1 read under the first term
UsedDB ==
    [table |-> TRUE, constraint |-> TRUE,
     rows |-> << [job |-> JobRecord(1, it_jobs[1]),
                  coords |-> Coordinates(JobRecord(1, it_jobs[1]).Location)] >>]

FnIdle == arg = "" /\ ret = <<>>

\* the state of a fresh process, before lambda_handler does anything
Fresh ==
    /\ response = NoResponse
    /\ ti = 1 /\ page = 0 /\ consecutive_old_jobs = 0
    /\ all_jobs = <<>>
    /\ job_cards = <<>>
    /\ lastFetch = "none"
    /\ fetched = [t \in DOMAIN it_jobs |-> 0]
    /\ starts = [t \in DOMAIN it_jobs |-> <<>>]
    /\ returned = <<>>
    /\ lookups = [s3 |-> 0, pg |-> 0]
    /\ stalePages = [t \in DOMAIN it_jobs |-> 0]
    /\ geocoding_cache = <<>>
    /\ geoLog = <<>>
    /\ idx = 1
    /\ jobs_with_coordinates = <<>>
    /\ s3_path = None
    /\ blobs = {}
    /\ s3Outcome = "none"
    /\ pgc = "connect"
    /\ job_data = <<>>
    /\ pgOutcome = "none"
    /\ calls = 0

Init ==
    /\ FnIdle
    /\ Fresh
    /\ pc = "start"
    /\ env \in {EnvVars} \cup { EnvVars \ {v} : v \in EnvVars }
    /\ db \in {EmptyDB, UsedDB}
    /\ dbBefore = db

\* lines 356-358 and 387-394: LinkedInRecentITJobsScraper() reads os.environ;
\* a missing key raises KeyError, which lambda_handler turns into the 500
Start ==
    /\ pc = "start"
    /\ IF InitReads \subseteq env
       THEN /\ pc' = "scrape"
            /\ UNCHANGED response
       ELSE /\ pc' = "done"
            /\ response' = [statusCode |-> 500, body |-> [error |-> "KeyError"]]
    /\ UNCHANGED <<fnvars, env, scrapevars, geovars, idx, s3vars, pgvars, calls>>

\* the failed fetch ends the whole for loop: a return for the break
AfterFetchFailureReturns(t) == Len(it_jobs) + 1

\* lines 153-155 and 215-217: a failed fetch breaks the while loop, and the
\* for loop goes on with the term after t
AfterFetchFailure(t) == t + 1

\* the page is asked for again: "page += 1" is lost
NextPageSame(p) == p

\* line 212: page += 1
NextPage(p) == p + 1

\* lines 146-217: one turn of the while loop, for it_jobs[ti] and page.
\* fetch is what requests.get does, cards the cards of the page it returns.
ScrapePage ==
    /\ pc = "scrape"
    /\ ti <= Len(it_jobs)
    /\ \E fetch \in {"ok", "non200", "raise"}, cards \in Pages :
        /\ fetch # "ok" => cards = <<>>
        /\ LET job_title == it_jobs[ti]
               found == RecentFound(cards)
               streak == IF found THEN 0 ELSE consecutive_old_jobs + 1
               break == \/ fetch # "ok"
                        \/ cards = <<>>
                        \/ ~found /\ streak >= 2
               endTerm == break \/ ~(NextPage(page) < max_pages_per_category)
           IN  /\ all_jobs' = all_jobs \o ProcessCards(cards, job_title)
               /\ lastFetch' = fetch
               /\ job_cards' = IF fetch = "ok" THEN cards ELSE job_cards
               /\ fetched' = [fetched EXCEPT ![ti] = @ + 1]
               /\ starts' = [starts EXCEPT ![ti] = Append(@, page * 25)]
               /\ stalePages' = [stalePages EXCEPT
                                    ![ti] = @ + (IF IsStalePage(cards) THEN 1 ELSE 0)]
               /\ IF endTerm
                  THEN /\ page' = 0
                       /\ consecutive_old_jobs' = 0
                       /\ ti' = IF fetch = "ok" THEN ti + 1 ELSE AfterFetchFailure(ti)
                  ELSE /\ page' = NextPage(page)
                       /\ consecutive_old_jobs' = streak
                       /\ ti' = ti
    /\ UNCHANGED <<fnvars, env, pc, response, returned, geovars, idx, s3vars,
                   pgvars, calls>>

\* line 219: return all_jobs; the locals of scrape_linkedin_jobs are gone
ScrapeReturn ==
    /\ pc = "scrape"
    /\ ti > Len(it_jobs)
    /\ returned' = all_jobs
    /\ job_cards' = <<>>
    /\ lastFetch' = "none"
    /\ pc' = "s3"
    /\ UNCHANGED <<fnvars, env, response, ti, page, consecutive_old_jobs, all_jobs,
                   fetched, stalePages, starts, geovars, idx, s3vars, pgvars, calls>>

(***************************************************************************)
(* save_to_s3                                                              *)
(***************************************************************************)

S3Url == "s3://bucket/linkedin_recent_it_jobs.csv"

\* lines 223-225: nothing to save
SaveToS3Empty ==
    /\ pc = "s3"
    /\ all_jobs = <<>>
    /\ s3_path' = None
    /\ s3Outcome' = "noop"
    /\ pc' = "pg"
    /\ UNCHANGED <<fnvars, env, response, scrapevars, geovars, idx,
                   jobs_with_coordinates, blobs, pgvars, calls>>

\* the enrichment loop without job.copy(): Latitude and Longitude are
\* written into the record of the list save_to_s3 was given
S3EnrichInPlace ==
    /\ pc = "s3"
    /\ idx <= Len(all_jobs)
    /\ \E outcome \in GeoOutcomes :
        LET job == all_jobs[idx]
            coords == GeoValue(job.Location, outcome, geocoding_cache)
        IN  /\ GetCoordinates(job.Location, outcome, "s3")
            /\ all_jobs' = [all_jobs EXCEPT ![idx] =
                               job @@ [Latitude |-> coords[1], Longitude |-> coords[2]]]
            /\ jobs_with_coordinates' =
                   Append(jobs_with_coordinates, [job |-> job, coords |-> coords])
    /\ idx' = idx + 1
    /\ UNCHANGED <<fnvars, env, response, ti, page, consecutive_old_jobs,
                   job_cards, lastFetch, fetched, stalePages, starts, returned,
                   s3_path, blobs, s3Outcome, pc, pgvars, calls>>

\* lines 236-242: one turn of the enrichment loop
S3Enrich ==
    /\ pc = "s3"
    /\ idx <= Len(all_jobs)
    /\ \E outcome \in GeoOutcomes :
        LET job == all_jobs[idx]
        IN  /\ GetCoordinates(job.Location, outcome, "s3")
            /\ jobs_with_coordinates' =
                   Append(jobs_with_coordinates,
                          [job |-> job,
                           coords |-> GeoValue(job.Location, outcome, geocoding_cache)])
    /\ idx' = idx + 1
    /\ UNCHANGED <<fnvars, env, response, scrapevars, s3_path, blobs, s3Outcome,
                   pc, pgvars, calls>>

\* save_to_s3 with its try/except lost: a failure of the write leaves the
\* handler through its own except branch
S3PutPropagates ==
    /\ pc = "s3"
    /\ all_jobs # <<>>
    /\ idx > Len(all_jobs)
    /\ \E put \in {"ok", "raise"} :
        IF "S3_BUCKET_NAME" \notin env \/ put = "raise"
        THEN /\ s3_path' = None
             /\ s3Outcome' = "failed"
             /\ blobs' = blobs
             /\ pc' = "done"
             /\ response' = [statusCode |-> 500, body |-> [error |-> "S3"]]
        ELSE /\ s3_path' = S3Url
             /\ s3Outcome' = "ok"
             /\ blobs' = blobs \cup {jobs_with_coordinates}
             /\ pc' = "pg"
             /\ response' = response
    /\ idx' = 1
    /\ UNCHANGED <<fnvars, env, scrapevars, geovars, jobs_with_coordinates,
                   pgvars, calls>>

\* lines 244-266: the CSV is written and put to the bucket; os.environ
\* ['S3_BUCKET_NAME'] is read here, inside the try, and boto3 may raise
S3Put ==
    /\ pc = "s3"
    /\ all_jobs # <<>>
    /\ idx > Len(all_jobs)
    /\ \E put \in {"ok", "raise"} :
        IF "S3_BUCKET_NAME" \notin env \/ put = "raise"
        THEN /\ s3_path' = None
             /\ s3Outcome' = "failed"
             /\ blobs' = blobs
        ELSE /\ s3_path' = S3Url
             /\ s3Outcome' = "ok"
             /\ blobs' = blobs \cup {jobs_with_coordinates}
    /\ pc' = "pg"
    /\ idx' = 1
    /\ UNCHANGED <<fnvars, env, response, scrapevars, geovars,
                   jobs_with_coordinates, pgvars, calls>>

(***************************************************************************)
(* save_to_postgres                                                        *)
(***************************************************************************)

HasUrl(rows, url) == \E i \in 1..Len(rows) : rows[i].job.JobURL = url

\* a plain INSERT: the unique constraint rejects the row with an error
InsertRowPlain(st, r) ==
    IF st.error THEN st
    ELSE IF HasUrl(st.rows, r.job.JobURL) THEN [st EXCEPT !.error = TRUE]
    ELSE [st EXCEPT !.rows = Append(@, r)]

\* lines 312-318: INSERT ... ON CONFLICT (job_url) DO NOTHING of one tuple;
\* st.error: a statement of the batch has raised
InsertRow(st, r) ==
    IF st.error THEN st
    ELSE IF HasUrl(st.rows, r.job.JobURL) THEN st
    ELSE [st EXCEPT !.rows = Append(@, r)]

\* line 340: execute_batch sends the statements in order, in one transaction
RECURSIVE ExecuteBatch(_, _)
ExecuteBatch(st, data) ==
    IF data = <<>> THEN st
    ELSE ExecuteBatch(InsertRow(st, Head(data)), Tail(data))

\* the except branch commits instead of rolling back
RollbackKeeps(committed, tx) == tx

\* conn.rollback() (lines 308, 348): the transaction's work is dropped
Rollback(committed, tx) == committed

\* save_to_postgres without its early return: the table is created although
\* there is nothing to insert
SaveToPostgresEmptyCreates ==
    /\ pc = "pg"
    /\ all_jobs = <<>>
    /\ db' = [db EXCEPT !.table = TRUE]
    /\ pgOutcome' = "noop"
    /\ pc' = "summary"
    /\ UNCHANGED <<fnvars, env, response, scrapevars, geovars, idx, s3vars,
                   pgc, job_data, dbBefore, calls>>

\* lines 270-272: nothing to save
SaveToPostgresEmpty ==
    /\ pc = "pg"
    /\ all_jobs = <<>>
    /\ pgOutcome' = "noop"
    /\ pc' = "summary"
    /\ UNCHANGED <<fnvars, env, response, scrapevars, geovars, idx, s3vars,
                   pgc, job_data, db, dbBefore, calls>>

\* lines 278-310: connect, CREATE TABLE IF NOT EXISTS, ALTER TABLE ADD
\* CONSTRAINT (DuplicateTable when the constraint is there: rolled back and
\* swallowed), commit.  step is the statement that raises, if any.
PgSetup ==
    /\ pc = "pg"
    /\ all_jobs # <<>>
    /\ pgc = "connect"
    /\ \E step \in {"none", "connect", "create", "alter", "commit"} :
        LET t1 == [db EXCEPT !.table = TRUE]
            t2 == IF t1.constraint THEN Rollback(db, t1)
                  ELSE [t1 EXCEPT !.constraint = TRUE]
        IN  CASE step = "none" ->
                   /\ db' = t2
                   /\ pgc' = "enrich"
                   /\ UNCHANGED <<pc, pgOutcome>>
              [] step = "connect" ->
                   /\ db' = db
                   /\ pgOutcome' = "failed connect"
                   /\ pc' = "summary"
                   /\ UNCHANGED pgc
              [] OTHER ->
                   /\ db' = Rollback(db, CASE step = "create" -> db
                                           [] step = "alter" -> t1
                                           [] step = "commit" -> t2)
                   /\ pgOutcome' = "failed setup"
                   /\ pc' = "summary"
                   /\ UNCHANGED pgc
    /\ UNCHANGED <<fnvars, env, response, scrapevars, geovars, idx, s3vars,
                   job_data, dbBefore, calls>>

\* lines 322-338: one turn of the enrichment loop
PgEnrich ==
    /\ pc = "pg"
    /\ pgc = "enrich"
    /\ idx <= Len(all_jobs)
    /\ \E outcome \in GeoOutcomes :
        LET job == all_jobs[idx]
        IN  /\ GetCoordinates(job.Location, outcome, "pg")
            /\ job_data' =
                   Append(job_data,
                          [job |-> job,
                           coords |-> GeoValue(job.Location, outcome, geocoding_cache)])
    /\ idx' = idx + 1
    /\ UNCHANGED <<fnvars, env, response, scrapevars, s3vars, pc, pgc, db,
                   dbBefore, pgOutcome, calls>>

\* lines 340-353: execute_batch and commit.  step = "batch": the statement
\* after the first k raises; step = "commit": the commit raises.
PgInsert ==
    /\ pc = "pg"
    /\ pgc = "enrich"
    /\ idx > Len(all_jobs)
    /\ \E step \in {"none", "batch", "commit"}, k \in 0..Len(job_data) :
        /\ IF step = "batch" THEN k < Len(job_data) ELSE k = Len(job_data)
        /\ LET st == ExecuteBatch([rows |-> db.rows, error |-> FALSE],
                                  SubSeq(job_data, 1, k))
               tx == [db EXCEPT !.rows = st.rows]
           IN  IF step = "none" /\ ~st.error
               THEN /\ db' = tx
                    /\ pgOutcome' = "ok"
               ELSE /\ db' = Rollback(db, tx)
                    /\ pgOutcome' = IF st.error THEN "failed conflict"
                                    ELSE "failed insert"
    /\ pc' = "summary"
    /\ pgc' = "connect"
    /\ idx' = 1
    /\ UNCHANGED <<fnvars, env, response, scrapevars, geovars, s3vars,
                   job_data, dbBefore, calls>>

(***************************************************************************)
(* lambda_handler: the summary                                             *)
(***************************************************************************)

\* the loop with "categories[category] = 1" for "+= 1"
RECURSIVE CategoryCountsNoAdd(_)
CategoryCountsNoAdd(jobs) ==
    IF jobs = <<>> THEN <<>>
    ELSE LET categories == CategoryCountsNoAdd(SubSeq(jobs, 1, Len(jobs) - 1))
             category == jobs[Len(jobs)].Category
         IN  IF category \notin DOMAIN categories
             THEN categories @@ (category :> 1)
             ELSE [categories EXCEPT ![category] = 1]

\* lines 368-373: categories after the loop over jobs
RECURSIVE CategoryCounts(_)
CategoryCounts(jobs) ==
    IF jobs = <<>> THEN <<>>
    ELSE LET categories == CategoryCounts(SubSeq(jobs, 1, Len(jobs) - 1))
             category == jobs[Len(jobs)].Category
         IN  IF category \notin DOMAIN categories
             THEN categories @@ (category :> 1)
             ELSE [categories EXCEPT ![category] = @ + 1]

\* lines 375-385 (the timestamp of the body is left out)
Summarize ==
    /\ pc = "summary"
    /\ response' = [statusCode |-> 200,
                    body |-> [total_jobs |-> Len(all_jobs),
                              jobs_by_category |-> CategoryCounts(all_jobs),
                              output_file |-> s3_path]]
    /\ pc' = "done"
    /\ UNCHANGED <<fnvars, env, scrapevars, geovars, idx, s3vars, pgvars, calls>>

Next ==
    \/ Start
    \/ ScrapePage
    \/ ScrapeReturn
    \/ SaveToS3Empty
    \/ S3Enrich
    \/ S3Put
    \/ SaveToPostgresEmpty
    \/ PgSetup
    \/ PgEnrich
    \/ PgInsert
    \/ Summarize

Spec == Init /\ [][Next]_vars

(***************************************************************************)
(* SpecDB: save_to_postgres called again and again on one database         *)
(***************************************************************************)

MaxCalls == 2       \* save_to_postgres calls in one behaviour

\* the record lists scrape_linkedin_jobs can return for the first two terms
Batches ==
    { ProcessCards(p1, it_jobs[1]) \o ProcessCards(p2, it_jobs[2]) :
        p1 \in Pages, p2 \in Pages }

InitDB ==
    /\ FnIdle
    /\ Fresh
    /\ pc = "summary"
    /\ env = EnvVars
    /\ db = EmptyDB
    /\ dbBefore = db

\* the next call: the records of a run, in the same process (the cache is
\* kept) or in a new one (the cache starts empty)
CallSaveToPostgres ==
    /\ pc = "summary"
    /\ calls < MaxCalls
    /\ calls' = calls + 1
    /\ all_jobs' \in Batches
    /\ \E newProcess \in BOOLEAN :
        IF newProcess
        THEN /\ geocoding_cache' = <<>>
             /\ geoLog' = <<>>
             /\ lookups' = [s3 |-> 0, pg |-> 0]
        ELSE UNCHANGED geovars
    /\ pc' = "pg"
    /\ pgc' = "connect"
    /\ idx' = 1
    /\ job_data' = <<>>
    /\ dbBefore' = db
    /\ pgOutcome' = "none"
    /\ UNCHANGED <<fnvars, env, response, ti, page, consecutive_old_jobs,
                   job_cards, lastFetch, fetched, stalePages, starts, returned,
                   s3vars, db>>

NextDB ==
    \/ CallSaveToPostgres
    \/ SaveToPostgresEmpty
    \/ PgSetup
    \/ PgEnrich
    \/ PgInsert

SpecDB == InitDB /\ [][NextDB]_vars

(***************************************************************************)
(* SpecClean, SpecRecent: the pure functions applied to their inputs       *)
(***************************************************************************)

PipelineIdle ==
    /\ Fresh
    /\ pc = "idle"
    /\ env = EnvVars
    /\ db = EmptyDB
    /\ dbBefore = db

pipevars == <<env, pc, response, scrapevars, geovars, idx, s3vars, pgvars, calls>>

InitClean ==
    /\ arg \in LocationInputs
    /\ ret = <<>>
    /\ PipelineIdle

\* clean_location applied to the input, then to its own result
ApplyClean ==
    /\ Len(ret) < 2
    /\ ret' = Append(ret, clean_location(IF ret = <<>> THEN arg ELSE ret[Len(ret)]))
    /\ UNCHANGED <<arg, pipevars>>

NextClean == ApplyClean

SpecClean == InitClean /\ [][NextClean]_vars

InitRecent ==
    /\ arg \in Dates
    /\ ret = <<>>
    /\ PipelineIdle

\* is_recent_job applied to the text of the posted date
ApplyRecent ==
    /\ ret = <<>>
    /\ ret' = <<is_recent_job(PostedText(arg))>>
    /\ UNCHANGED <<arg, pipevars>>

NextRecent == ApplyRecent

SpecRecent == InitRecent /\ [][NextRecent]_vars

(***************************************************************************)
(* Properties                                                              *)
(***************************************************************************)

Failed(outcome) == outcome \in {"failed connect", "failed setup", "failed insert",
                                "failed conflict"}

TermDone(t) == pc \notin {"start", "scrape"} \/ ti > t

Min(a, b) == IF a <= b THEN a ELSE b

RECURSIVE SumOf(_, _)
SumOf(f, S) ==
    IF S = {} THEN 0
    ELSE LET x == CHOOSE y \in S : TRUE IN f[x] + SumOf(f, S \ {x})

\* C1: after any sequence of save_to_postgres calls the table holds at most
\* one row per job_url, no call fails on a conflicting insert, and a row,
\* once committed, stays where it is with the values it was stored with.
C1_OneRowPerUrl ==
    /\ [](\A i, j \in 1..Len(db.rows) :
              db.rows[i].job.JobURL = db.rows[j].job.JobURL => i = j)
    /\ [](pgOutcome # "failed conflict")
    /\ [][\A i \in 1..Len(db.rows) :
              i <= Len(db'.rows) /\ db'.rows[i] = db.rows[i]]_vars

\* C1 witness: a second call has committed a batch that holds one URL twice
\* and a URL stored by the first call, with other values than the stored row.
C1_Witness ==
    /\ calls = 2
    /\ pgOutcome = "ok"
    /\ \E i, j \in 1..Len(job_data) :
           i < j /\ job_data[i].job.JobURL = job_data[j].job.JobURL
    /\ \E i \in 1..Len(job_data), k \in 1..Len(dbBefore.rows) :
           /\ job_data[i].job.JobURL = dbBefore.rows[k].job.JobURL
           /\ job_data[i] # dbBefore.rows[k]
           /\ db.rows[k] = dbBefore.rows[k]

\* C2: a 200 response reports total_jobs = the number of scraped records and
\* jobs_by_category = the number of records of every category that has one,
\* and these numbers add up to total_jobs.
C2_SummaryCounts ==
    (pc = "done" /\ response.statusCode = 200) =>
        LET body == response.body
            produced == { all_jobs[i].Category : i \in 1..Len(all_jobs) }
        IN  /\ body.total_jobs = Len(all_jobs)
            /\ DOMAIN body.jobs_by_category = produced
            /\ \A c \in produced :
                   body.jobs_by_category[c] = RecordsOf(all_jobs, c)
            /\ SumOf(body.jobs_by_category, produced) = body.total_jobs

\* C2 witness: three terms with two records each give 6 and 2 per category.
C2_Witness ==
    /\ pc = "done"
    /\ response.statusCode = 200
    /\ response.body.total_jobs = 6
    /\ \A t \in DOMAIN it_jobs : response.body.jobs_by_category[it_jobs[t]] = 2

C4_FirstCallIsCached ==
    \A L \in DOMAIN geoLog :
        /\ L \in DOMAIN geocoding_cache
        /\ geoLog[L].net <= 1
        /\ geoLog[L].same

\* C5 as stated: a term whose pages all hold cards but no recent card is
\* left after exactly 2 result pages, with no record.
C5_TwoStalePages ==
    \A t \in DOMAIN it_jobs :
        (TermDone(t) /\ fetched[t] >= 1 /\ stalePages[t] = fetched[t]) =>
            /\ fetched[t] = 2
            /\ RecordsOf(all_jobs, it_jobs[t]) = 0

\* C5: a term whose pages all hold cards but no recent card is left after
\* min(2, max_pages_per_category) result pages, that is after 1 page, with no
\* record.
C5_StalePagesUpToCap ==
    \A t \in DOMAIN it_jobs :
        (TermDone(t) /\ fetched[t] >= 1 /\ stalePages[t] = fetched[t]) =>
            /\ fetched[t] = Min(2, max_pages_per_category)
            /\ fetched[t] = 1
            /\ RecordsOf(all_jobs, it_jobs[t]) = 0

\* C5 witness: the first term's page was stale and the run went on.
C5_Witness ==
    /\ pc = "done"
    /\ stalePages[1] = 1
    /\ fetched[1] = 1
    /\ all_jobs # <<>>

\* C6 as stated: every record comes from a card whose posted-date text
\* is_recent_job accepted.
C6_EveryRecordFiltered ==
    \A i \in 1..Len(all_jobs) :
        LET c == Card[all_jobs[i].card]
        IN  c.hasDate /\ RecentDate[all_jobs[i].card]

\* C6: every record comes from a card that parsed and that either has no
\* posted-date element (its Posted Date is then "Recently") or has a
\* posted-date text that is_recent_job accepted.
C6_RecordsFilteredOrUndated ==
    \A i \in 1..Len(all_jobs) :
        LET c == Card[all_jobs[i].card]
        IN  /\ c.ok
            /\ c.hasDate => RecentDate[all_jobs[i].card] /\ all_jobs[i].PostedDate = c.date
            /\ ~c.hasDate => all_jobs[i].PostedDate = "Recently"

\* C6 witness: a record of a dated card and a record of an undated one.
C6_Witness ==
    /\ \E i \in 1..Len(all_jobs) : Card[all_jobs[i].card].hasDate
    /\ \E i \in 1..Len(all_jobs) : ~Card[all_jobs[i].card].hasDate

\* C7: is_recent_job is true exactly for the texts that denote an age of at
\* most 3 days.
C7_RecentExactly ==
    ret # <<>> => (ret[1] <=> DenotesAtMost3Days(arg))

\* C8 as stated: with any of the six variables unset no page is fetched, no
\* sink is written and the handler returns 500.
C8_AllSixRequired ==
    env # EnvVars =>
        /\ \A t \in DOMAIN it_jobs : fetched[t] = 0
        /\ s3Outcome = "none" /\ pgOutcome = "none"
        /\ pc = "done" => response.statusCode = 500

\* C8: with any of DB_NAME, DB_USER, DB_PASSWORD, DB_HOST, DB_PORT unset no
\* page is fetched, no sink is written and the handler returns 500 with an
\* error body; with only S3_BUCKET_NAME unset the handler returns 200 with a
\* null output_file.
C8_DbVarsRequired ==
    /\ ~(DBVars \subseteq env) =>
           /\ \A t \in DOMAIN it_jobs : fetched[t] = 0
           /\ s3Outcome = "none" /\ pgOutcome = "none"
           /\ blobs = {} /\ db = dbBefore
           /\ pc = "done" => /\ response.statusCode = 500
                             /\ DOMAIN response.body = {"error"}
    /\ (env = EnvVars \ {"S3_BUCKET_NAME"} /\ pc = "done") =>
           /\ response.statusCode = 200
           /\ response.body.output_file = None

\* C8 witness: DB_PORT is unset and the handler has returned.
C8_Witness ==
    /\ "DB_PORT" \notin env
    /\ pc = "done"
    /\ response.statusCode = 500

\* C9 as stated: a save_to_postgres that fails after connecting leaves the
\* database as it was when the call began.
C9_NothingCommitted ==
    pgOutcome \in {"failed setup", "failed insert", "failed conflict"} =>
        db = dbBefore

\* C9: a save_to_postgres that fails after connecting commits no row; a
\* failure up to the commit of line 310 leaves the database as it was, a
\* later one leaves the table and its constraint committed.
C9_NoRowCommitted ==
    /\ pgOutcome = "failed setup" => db = dbBefore
    /\ pgOutcome \in {"failed insert", "failed conflict"} =>
           /\ db.rows = dbBefore.rows
           /\ db.table /\ db.constraint

\* C9 witness: the insert failed with a tuple in the batch that is not stored.
C9_Witness ==
    /\ pgOutcome = "failed insert"
    /\ \E i \in 1..Len(job_data) : ~HasUrl(db.rows, job_data[i].job.JobURL)

\* C10 as stated: clean_location(clean_location(x)) = clean_location(x).
C10_Idempotent ==
    Len(ret) = 2 => ret[2] = ret[1]

\* C10: clean_location(clean_location(x)) = clean_location(x) exactly when
\* clean_location(x) neither ends in " Area" nor holds "Greater ".
C10_IdempotentUnlessResidue ==
    Len(ret) = 2 =>
        (ret[2] = ret[1] <=>
            (~EndsWith(ret[1], " Area") /\ ~Contains(ret[1], "Greater ")))

\* C10 witness: "Greater London Area" is cleaned to "London", and stays.
C10_Witness ==
    /\ arg = "Greater London Area"
    /\ ret = <<"London", "London">>

\* the positions of a page whose card is not rejected by the recency filter
\* and can be parsed
GoodPositions(cards) ==
    { i \in 1..Len(cards) :
        /\ Card[cards[i]].ok
        /\ ~Card[cards[i]].hasDate \/ RecentDate[cards[i]] }

\* the cards at those positions, in page order
GoodCards(cards) ==
    LET good == GoodPositions(cards)
    IN  [ j \in 1..Cardinality(good) |->
            cards[CHOOSE i \in good : Cardinality({k \in good : k <= i}) = j] ]

\* C11: a page that was fetched adds to all_jobs exactly the records of its
\* cards that pass the recency filter and parse, in page order, whatever
\* cards of the page fail; the records before it stay, and the term goes on
\* as after any page.
C11_BadCardSkipped ==
    [][(pc = "scrape" /\ fetched' # fetched /\ lastFetch' = "ok") =>
          /\ Len(all_jobs') = Len(all_jobs) + Len(GoodCards(job_cards'))
          /\ SubSeq(all_jobs', 1, Len(all_jobs)) = all_jobs
          /\ \A j \in 1..Len(GoodCards(job_cards')) :
                 /\ all_jobs'[Len(all_jobs) + j].card = GoodCards(job_cards')[j]
                 /\ all_jobs'[Len(all_jobs) + j].Category = it_jobs[ti]
          /\ ti' = ti + 1]_vars

\* C11 witness: the page held the card that cannot be parsed before a recent
\* card, and the record of the recent card is the last of all_jobs.
C11_Witness ==
    /\ pc = "scrape"
    /\ lastFetch = "ok"
    /\ job_cards = <<4, 1>>
    /\ all_jobs # <<>>
    /\ all_jobs[Len(all_jobs)].card = 1

\* the scraper was constructed and scrape_linkedin_jobs has returned
Scraped == pc \in {"s3", "pg", "summary"} \/ (pc = "done" /\ s3Outcome # "none")

\* C12: a result-page request that raises or answers another status than 200
\* adds no record, removes none, and passes to the next term; records once in
\* all_jobs stay in it up to the return, and every term has been asked for by
\* the time scrape_linkedin_jobs returns.
C12_FailedFetchStopsTerm ==
    /\ [][(pc = "scrape" /\ fetched' # fetched /\ lastFetch' \in {"non200", "raise"}) =>
             /\ all_jobs' = all_jobs
             /\ ti' = ti + 1
             /\ pc' = "scrape"]_vars
    /\ [][pc = "scrape" =>
             /\ SubSeq(all_jobs', 1, Len(all_jobs)) = all_jobs
             /\ pc' = "s3" => returned' = all_jobs]_vars
    /\ [](Scraped => \A t \in DOMAIN it_jobs : fetched[t] >= 1)

\* C12 witness: the request of the second term failed, the records of the
\* first term are in all_jobs, and the third term is next.
C12_Witness ==
    /\ pc = "scrape"
    /\ lastFetch = "raise"
    /\ ti = 3
    /\ fetched[2] = 1
    /\ RecordsOf(all_jobs, it_jobs[1]) > 0

(***************************************************************************)
(* SpecScrape: scrape_linkedin_jobs alone, every network call returning    *)
(***************************************************************************)

NextScrape ==
    \/ Start
    \/ ScrapePage
    \/ ScrapeReturn

\* every requests.get returns, so a turn of the loop that can be taken is taken
SpecScrape == Init /\ [][NextScrape]_vars /\ WF_vars(NextScrape)

\* C13: scrape_linkedin_jobs returns; for each term the k-th request asks for
\* offset 25 * (k - 1), so the offsets are 0, 25, ... in increasing order with
\* none asked twice, at most max_pages_per_category of them per term and at
\* most max_pages_per_category * (number of terms) in the run.
C13_ScrapeTerminates ==
    /\ [](\A t \in DOMAIN it_jobs :
              /\ fetched[t] = Len(starts[t])
              /\ Len(starts[t]) <= max_pages_per_category
              /\ \A k \in 1..Len(starts[t]) : starts[t][k] = 25 * (k - 1))
    /\ [](SumOf(fetched, DOMAIN it_jobs) <= max_pages_per_category * Len(it_jobs))
    /\ (pc = "scrape") ~> (pc = "s3")

\* C13 witness: scrape_linkedin_jobs has returned after one request per term.
C13_Witness ==
    /\ pc = "s3"
    /\ \A t \in DOMAIN it_jobs : starts[t] = <<0>>
    /\ all_jobs # <<>>

(***************************************************************************)
(* the two enrichment passes                                               *)
(***************************************************************************)

\* both writers have run their enrichment loop over the whole record list
BothPassesDone ==
    /\ all_jobs # <<>>
    /\ pc \in {"summary", "done"}
    /\ Len(jobs_with_coordinates) = Len(all_jobs)
    /\ Len(job_data) = Len(all_jobs)

\* C14 as stated: the two passes share nothing, so when both writers have
\* gone through the record list the run has issued twice the lookups of the
\* blob writer's pass.
C14_TwiceTheLookups ==
    BothPassesDone => lookups.s3 + lookups.pg = 2 * lookups.s3

\* C14 amended: both writers call get_coordinates for every record, but
\* through the one geocoding_cache of the scraper.  The relational writer's
\* pass asks the service only for a location that is not in the cache, takes
\* a cached location's pair from the cache, never asks more often than the
\* blob writer's pass did, and asks nothing when every CSV row has
\* coordinates.
C14_SecondPassUsesCache ==
    /\ [](lookups.pg <= lookups.s3)
    /\ [](BothPassesDone
            /\ (\A i \in 1..Len(jobs_with_coordinates) :
                    jobs_with_coordinates[i].coords # NoCoordinates)
          => lookups.pg = 0)
    /\ [][job_data' # job_data =>
            LET location == all_jobs[idx].Location
            IN  IF location \in DOMAIN geocoding_cache
                THEN /\ lookups' = lookups
                     /\ job_data'[idx].coords = geocoding_cache[location]
                ELSE /\ lookups'.pg = lookups.pg + 1
                     /\ lookups'.s3 = lookups.s3]_vars

\* C14 witness: two records went through both passes; the blob writer's pass
\* asked the service twice, the relational writer's pass not at all.
C14_Witness ==
    /\ BothPassesDone
    /\ Len(all_jobs) = 2
    /\ pgOutcome = "ok"
    /\ lookups = [s3 |-> 2, pg |-> 0]

\* C15: when scrape_linkedin_jobs returns no record, no lookup is issued and
\* nothing is cached, no object is put, the database is the one the run found
\* (no connection, no table made), both writers report the no-op, and the
\* handler answers 200 with total_jobs 0, no category and no output file.
C15_EmptyIsNoOp ==
    (Scraped /\ returned = <<>>) =>
        /\ all_jobs = <<>>
        /\ lookups = [s3 |-> 0, pg |-> 0]
        /\ geoLog = <<>> /\ geocoding_cache = <<>>
        /\ jobs_with_coordinates = <<>> /\ job_data = <<>>
        /\ blobs = {}
        /\ db = dbBefore /\ pgc = "connect"
        /\ pc \in {"pg", "summary", "done"} =>
               s3Outcome = "noop" /\ s3_path = None
        /\ pc \in {"summary", "done"} => pgOutcome = "noop"
        /\ pc = "done" =>
               response = [statusCode |-> 200,
                           body |-> [total_jobs |-> 0,
                                     jobs_by_category |-> <<>>,
                                     output_file |-> None]]

\* C15 witness: the handler has answered a run that scraped nothing, on a
\* database that has no table.
C15_Witness ==
    /\ pc = "done"
    /\ Scraped
    /\ returned = <<>>
    /\ \A t \in DOMAIN it_jobs : fetched[t] = 1
    /\ db = EmptyDB
    /\ response.statusCode = 200

\* C16: every record of all_jobs has an Experience Level among Entry, Mid and
\* Senior Level, a Work Type among Remote, Hybrid and On-site, a Category from
\* it_jobs that is the term of the page its card was on, and as Posted Date
\* its card's date text, or "Recently" when its card has no date element.
C16_WellTyped ==
    /\ [](\A i \in 1..Len(all_jobs) :
            LET job == all_jobs[i]
            IN  /\ job.ExperienceLevel \in {"Entry Level", "Mid Level", "Senior Level"}
                /\ job.WorkType \in {"Remote", "Hybrid", "On-site"}
                /\ \E t \in DOMAIN it_jobs : job.Category = it_jobs[t]
                /\ IF Card[job.card].hasDate
                   THEN job.PostedDate = Card[job.card].date
                   ELSE job.PostedDate = "Recently")
    /\ [][pc = "scrape" =>
            \A j \in (Len(all_jobs) + 1)..Len(all_jobs') :
                all_jobs'[j].Category = it_jobs[ti]]_vars

\* C16 witness: a page of the second term showed a dated card and then an
\* undated one, and both are in all_jobs.
C16_Witness ==
    /\ Len(all_jobs) >= 2
    /\ LET n == Len(all_jobs)
       IN  /\ all_jobs[n - 1].card = 1 /\ all_jobs[n].card = 2
           /\ all_jobs[n - 1].Category = it_jobs[2]
           /\ all_jobs[n].Category = it_jobs[2]
           /\ all_jobs[n - 1].PostedDate = "2 days ago"
           /\ all_jobs[n].PostedDate = "Recently"
           /\ all_jobs[n - 1].ExperienceLevel = "Senior Level"
           /\ all_jobs[n - 1].WorkType = "Hybrid"
           /\ all_jobs[n].ExperienceLevel = "Mid Level"
           /\ all_jobs[n].WorkType = "On-site"

\* C17: when both writers have gone through the record list, each record
\* has in its CSV row the pair of coordinates it has in its insert tuple,
\* whatever the lookup service did.
C17_SameCoordinates ==
    BothPassesDone =>
        \A i \in 1..Len(all_jobs) :
            jobs_with_coordinates[i].coords = job_data[i].coords

\* C18: from the return of scrape_linkedin_jobs on, through both writers
\* and whether they succeed or fail, the record list is the list that was
\* returned (length, order, fields and values), and the summary counts the
\* returned records.
C18_RecordListUnchanged ==
    /\ Scraped => all_jobs = returned
    /\ (pc = "done" /\ response.statusCode = 200) =>
           /\ response.body.total_jobs = Len(returned)
           /\ response.body.jobs_by_category = CategoryCounts(returned)

\* C18 witness: two records went through both enrichment passes, the blob
\* writer failed, the relational writer inserted, and the handler answered.
C18_Witness ==
    /\ pc = "done"
    /\ BothPassesDone
    /\ Len(returned) = 2
    /\ s3Outcome = "failed"
    /\ pgOutcome = "ok"
    /\ \E i \in 1..Len(job_data) : job_data[i].coords # NoCoordinates
    /\ response.statusCode = 200
    /\ response.body.total_jobs = 2

====
